---- MODULE Spec2Model ----
(***************************************************************************)
(* Model of hand.c: the per-frame loop of main (find_contour,              *)
(* find_convex_hull, find_fingers, display, cvWaitKey) over struct ctx.    *)
(* The OpenCV calls are the environment: cvFindContours/cvApproxPoly hand  *)
(* in a polyline (or nothing), cvConvexityDefects hands in the depth       *)
(* points of that polyline.  C arrays are 0-based and TLA+ sequences       *)
(* 1-based: C's a[k] is a[k + 1] here; the loop counter i keeps its C      *)
(* value.                                                                  *)
(***************************************************************************)
EXTENDS Integers, Sequences, FiniteSets

VARIABLES
    pc,           \* position of main's do-while body
    contour,      \* ctx->contour
    hull,         \* ctx->hull
    hand_center,  \* ctx->hand_center
    hand_radius,  \* ctx->hand_radius
    num_defects,  \* ctx->num_defects
    defects,      \* ctx->defects, NUM_DEFECTS slots
    num_fingers,  \* ctx->num_fingers
    fingers,      \* ctx->fingers, NUM_FINGERS + 1 slots
    i,            \* find_fingers: loop counter
    dist1,        \* find_fingers: previous squared distance
    dist2,        \* find_fingers: squared distance before dist1
    max_point,    \* find_fingers: previous contour point
    points,       \* find_fingers: array copy of the contour
    found,        \* history: find_contour selected a contour in this frame
    overflow,     \* history: a store went past the end of ctx->fingers
    overlay       \* what display drew on the current frame

vars == <<pc, contour, hull, hand_center, hand_radius, num_defects, defects,
          num_fingers, fingers, i, dist1, dist2, max_point, points, found,
          overflow, overlay>>

hand == <<hand_center, hand_radius, num_defects, defects>>
scan == <<i, dist1, dist2, max_point, points>>

----------------------------------------------------------------------------
(* Program constants *)

NUM_FINGERS == 5
NUM_DEFECTS == 8

(* Bounds of the model *)

FrameHeight == 48   \* cvGetSize(ctx->image).height
MaxTips == 9        \* most fingers-and-valleys of a generated hand contour
MaxRaw == 9         \* longest raw defect list of SpecHull
MaxShortRaw == 4    \* longest raw defect list over the full depth-point set
MaxShort == 4       \* longest contour of SpecFingers over the full point set
MaxLong == 15       \* longest zigzag contour of SpecFingers

----------------------------------------------------------------------------
(* Values *)

Pt(px, py) == [x |-> px, y |-> py]
Origin == Pt(0, 0)

\* A CvSeq of points together with what cvConvexityDefects derives from it.
NULL == [points |-> <<>>, depth |-> <<>>]
HullNULL == "NULL"

Min(a, b) == IF a < b THEN a ELSE b

\* struct ctx ctx = { } and the two calloc'd buffers of init_ctx
ZeroPoints(n) == [k \in 1..n |-> Origin]

\* What an uninitialised CvPoint, or the heap past a buffer, may hold.
Garbage == {Origin, Pt(7, 7)}

NoOverlay == [drawn |-> FALSE, center |-> Origin, radius |-> 0,
              tips |-> <<>>, marks |-> <<>>]

----------------------------------------------------------------------------
(* Arithmetic of find_convex_hull and find_fingers *)

SqDist(cx, cy, p) == (cx - p.x) * (cx - p.x) + (cy - p.y) * (cy - p.y)

\* AddSqrt with the sum rounded to nearest instead of truncated
AddSqrtRounded(dist, d) ==
    CHOOSE k \in dist..(dist + d + 1) :
        /\ k = dist \/ (2 * (k - dist) - 1) * (2 * (k - dist) - 1) <= 4 * d
        /\ (2 * (k - dist) + 1) * (2 * (k - dist) + 1) > 4 * d

\* int dist; dist += sqrt(d): the double sum dist + sqrt(d) converted back to
\* int, i.e. the largest k with (k - dist)^2 <= d.
AddSqrt(dist, d) ==
    CHOOSE k \in dist..(dist + d) :
        /\ (k - dist) * (k - dist) <= d
        /\ (k - dist + 1) * (k - dist + 1) > d

RECURSIVE SumX(_, _)
SumX(raw, n) == IF n = 0 THEN 0 ELSE SumX(raw, n - 1) + raw[n].x

RECURSIVE SumY(_, _)
SumY(raw, n) == IF n = 0 THEN 0 ELSE SumY(raw, n - 1) + raw[n].y

\* the second loop of find_convex_hull after n iterations
RECURSIVE RadiusLoop(_, _, _, _)
RadiusLoop(raw, n, x, y) ==
    IF n = 0 THEN 0
    ELSE AddSqrt(RadiusLoop(raw, n - 1, x, y), SqDist(x, y, raw[n]))

\* i < defects->total && i < NUM_DEFECTS
SampledCount(total) == Min(total, NUM_DEFECTS)

\* ctx->num_defects = defects->total
StoredNumDefects(total) == total

\* the body of if (defects && defects->total)
Aggregate(prev, raw) ==
    LET total == Len(raw)
        m == SampledCount(total)
        x == SumX(raw, m) \div total
        y == SumY(raw, m) \div total
    IN  [center |-> Pt(x, y),
         radius |-> RadiusLoop(raw, total, x, y) \div total,
         num_defects |-> StoredNumDefects(total),
         defects |-> [k \in 1..NUM_DEFECTS |->
                        IF k <= m THEN raw[k] ELSE prev.defects[k]]]

\* HandModel storing a computed zero center and radius for an empty list
HandModelZeroed(prev, raw) ==
    IF Len(raw) # 0 THEN Aggregate(prev, raw)
    ELSE [prev EXCEPT !.center = Origin, !.radius = 0]

\* the hand model find_convex_hull leaves, given the raw defect list
HandModel(prev, raw) ==
    IF Len(raw) # 0 THEN Aggregate(prev, raw) ELSE prev

\* the acceptance test of find_fingers
Accept(dist, d1, d2, mp) ==
    /\ dist < d1
    /\ d1 > d2
    /\ mp.x # 0
    /\ mp.y < FrameHeight - 10

\* CapReached with > in place of >=
CapReachedLate(nf) == nf > NUM_FINGERS + 1

\* if (ctx->num_fingers >= NUM_FINGERS + 1) break;
CapReached(nf) == nf >= NUM_FINGERS + 1

\* RollMaxPoint keeping the point before the current one
RollTwoBehind(pts, k) == IF k >= 1 THEN pts[k] ELSE pts[k + 1]

\* max_point = points[i]
RollMaxPoint(pts, k) == pts[k + 1]

----------------------------------------------------------------------------
(* What the vision library hands in *)

cvConvexityDefects(c) == c.depth
cvConvexHull2(c) == "hull"

Tip(j) == Pt(4 * j + 2, 5)
Valley(j) == Pt(4 * j + 4, 20)

\* An open hand seen from below: k fingers up, a valley after each, the
\* wrist along the bottom edge of the frame.
Hand(k) ==
    [points |-> [n \in 1..(2 * k) |->
                    IF n % 2 = 1 THEN Tip((n - 1) \div 2)
                    ELSE Valley((n - 2) \div 2)]
                \o <<Pt(4 * k + 4, FrameHeight - 1), Pt(2, FrameHeight - 1)>>,
     depth |-> [n \in 1..k |-> Valley(n - 1)]]

\* A convex blob (no convexity defect) around (12, 20).
ConvexRing ==
    [points |-> <<Pt(19, 19), Pt(17, 24), Pt(13, 28), Pt(9, 27), Pt(5, 24),
                  Pt(4, 20), Pt(5, 14), Pt(9, 12), Pt(13, 11), Pt(17, 16)>>,
     depth |-> <<>>]

\* A polyline cvApproxPoly reduced to two points.
Sliver == [points |-> <<Pt(14, 20), Pt(10, 20)>>, depth |-> <<>>]

Scenes == {Hand(k) : k \in 1..MaxTips} \cup {ConvexRing, Sliver}

----------------------------------------------------------------------------
(* The frame loop *)

Init ==
    /\ pc = "find_contour"
    /\ contour = NULL
    /\ hull = HullNULL
    /\ hand_center = Origin
    /\ hand_radius = 0
    /\ num_defects = 0
    /\ defects = ZeroPoints(NUM_DEFECTS)
    /\ num_fingers = 0
    /\ fingers = ZeroPoints(NUM_FINGERS + 1)
    /\ i = 0
    /\ dist1 = 0
    /\ dist2 = 0
    /\ max_point = Origin
    /\ points = <<>>
    /\ found = FALSE
    /\ overflow = FALSE
    /\ overlay = NoOverlay

\* cvQueryFrame, filter_and_threshold, find_contour: c is the polyline of the
\* largest-area contour, NULL when no contour has a positive area.
FindContour ==
    /\ pc = "find_contour"
    /\ \E c \in Scenes \cup {NULL} :
         /\ contour' = IF c # NULL THEN c ELSE contour
         /\ found' = (c # NULL)
    /\ overlay' = NoOverlay
    /\ pc' = "find_convex_hull"
    /\ UNCHANGED <<hull, hand, num_fingers, fingers, scan, overflow>>

FindConvexHull ==
    /\ pc = "find_convex_hull"
    /\ IF contour = NULL
         THEN /\ hull' = HullNULL
              /\ UNCHANGED hand
         ELSE LET new == HandModel([center |-> hand_center,
                                    radius |-> hand_radius,
                                    num_defects |-> num_defects,
                                    defects |-> defects],
                                   cvConvexityDefects(contour))
              IN  /\ hull' = cvConvexHull2(contour)
                  /\ hand_center' = new.center
                  /\ hand_radius' = new.radius
                  /\ num_defects' = new.num_defects
                  /\ defects' = new.defects
    /\ pc' = "find_fingers"
    /\ UNCHANGED <<contour, num_fingers, fingers, scan, found, overflow,
                   overlay>>

\* find_fingers up to the loop
FindFingers ==
    /\ pc = "find_fingers"
    /\ num_fingers' = 0
    /\ IF contour = NULL \/ hull = HullNULL
         THEN /\ pc' = "display"
              /\ UNCHANGED scan
         ELSE /\ pc' = "scan"
              /\ i' = 0
              /\ dist1' = 0
              /\ dist2' = 0
              /\ max_point' \in Garbage
              /\ points' = contour.points
    /\ UNCHANGED <<contour, hull, hand, fingers, found, overflow, overlay>>

\* the locals of find_fingers are gone once it returns
LeaveScan ==
    /\ pc' = "display"
    /\ i' = 0
    /\ dist1' = 0
    /\ dist2' = 0
    /\ max_point' = Origin
    /\ points' = <<>>

\* one iteration of the loop of find_fingers, or its exit
ScanStep ==
    /\ pc = "scan"
    /\ IF i < Len(points)
         THEN LET dist == SqDist(hand_center.x, hand_center.y, points[i + 1])
              IN  IF Accept(dist, dist1, dist2, max_point)
                    THEN /\ IF num_fingers < NUM_FINGERS + 1
                              THEN /\ fingers' = [fingers EXCEPT
                                                    ![num_fingers + 1] = max_point]
                                   /\ overflow' = overflow
                              ELSE /\ fingers' = fingers
                                   /\ overflow' = TRUE
                         /\ num_fingers' = num_fingers + 1
                         /\ IF CapReached(num_fingers + 1)
                              THEN LeaveScan
                              ELSE /\ dist2' = dist1
                                   /\ dist1' = dist
                                   /\ max_point' = RollMaxPoint(points, i)
                                   /\ i' = i + 1
                                   /\ UNCHANGED <<pc, points>>
                    ELSE /\ dist2' = dist1
                         /\ dist1' = dist
                         /\ max_point' = RollMaxPoint(points, i)
                         /\ i' = i + 1
                         /\ UNCHANGED <<pc, points, fingers, num_fingers,
                                        overflow>>
         ELSE /\ LeaveScan
              /\ UNCHANGED <<fingers, num_fingers, overflow>>
    /\ UNCHANGED <<contour, hull, hand, found, overlay>>

\* display: g is what lies behind the NUM_DEFECTS slots of ctx->defects
Display ==
    /\ pc = "display"
    /\ \E g \in Garbage :
         overlay' =
            IF num_fingers = NUM_FINGERS
              THEN [drawn |-> TRUE,
                    center |-> hand_center,
                    radius |-> hand_radius,
                    tips |-> SubSeq(fingers, 1, num_fingers),
                    marks |-> [k \in 1..num_defects |->
                                 IF k <= NUM_DEFECTS THEN defects[k] ELSE g]]
              ELSE NoOverlay
    /\ pc' = "wait_key"
    /\ UNCHANGED <<contour, hull, hand, num_fingers, fingers, scan, found,
                   overflow>>

\* cvWriteFrame, cvWaitKey and the loop condition
WaitKey ==
    /\ pc = "wait_key"
    /\ \E key \in {"q", "other"} :
         pc' = IF key # "q" THEN "find_contour" ELSE "exit"
    /\ UNCHANGED <<contour, hull, hand, num_fingers, fingers, scan, found,
                   overflow, overlay>>

Next ==
    \/ FindContour
    \/ FindConvexHull
    \/ FindFingers
    \/ ScanStep
    \/ Display
    \/ WaitKey

Spec == Init /\ [][Next]_vars

----------------------------------------------------------------------------
(* find_convex_hull alone, over raw defect lists of every length up to     *)
(* MaxRaw: the state find_contour leaves in the first frame.               *)

DepthPts == {Pt(0, 0), Pt(10, 0), Pt(0, 10), Pt(10, 10)}
DepthPtsLong == {Pt(0, 0), Pt(10, 10)}

RawLists ==
    UNION {[1..n -> DepthPts] : n \in 0..MaxShortRaw}
    \cup UNION {[1..n -> DepthPtsLong] : n \in (MaxShortRaw + 1)..MaxRaw}

\* a contour running over fingertips and the given depth points
HullInput(d) ==
    IF d = <<>> THEN ConvexRing
    ELSE [points |-> [n \in 1..(2 * Len(d)) |->
                        IF n % 2 = 1 THEN Tip((n - 1) \div 2) ELSE d[n \div 2]],
          depth |-> d]

AfterFindContour(c) ==
    /\ pc = "find_convex_hull"
    /\ contour = c
    /\ hull = HullNULL
    /\ hand_center = Origin
    /\ hand_radius = 0
    /\ num_defects = 0
    /\ defects = ZeroPoints(NUM_DEFECTS)
    /\ num_fingers = 0
    /\ fingers = ZeroPoints(NUM_FINGERS + 1)
    /\ i = 0
    /\ dist1 = 0
    /\ dist2 = 0
    /\ max_point = Origin
    /\ points = <<>>
    /\ found = TRUE
    /\ overflow = FALSE
    /\ overlay = NoOverlay

InitHull == \E d \in RawLists : AfterFindContour(HullInput(d))

NextHull == FindConvexHull

SpecHull == InitHull /\ [][NextHull]_vars

----------------------------------------------------------------------------
(* find_convex_hull and find_fingers over every short contour, and over    *)
(* long zigzag contours, with the hand center at (0, 0) or at (12, 20).    *)

FarPt == Pt(12, 10)
NearPt == Pt(12, 16)
LeftEdgePt == Pt(0, 20)
BottomPt == Pt(12, FrameHeight - 10)
AboveBottomPt == Pt(12, FrameHeight - 11)

FingerPts == {FarPt, NearPt, Origin, LeftEdgePt, BottomPt, AboveBottomPt}

Zigzag(n) == [k \in 1..n |-> IF k % 2 = 1 THEN FarPt ELSE NearPt]

FingerContours ==
    UNION {[1..n -> FingerPts] : n \in 1..MaxShort}
    \cup {Zigzag(n) : n \in 1..MaxLong}

CenterDefects == {<<>>, <<Pt(12, 20)>>}

InitFingers ==
    \E p \in FingerContours, d \in CenterDefects :
        AfterFindContour([points |-> p, depth |-> d])

NextFingers ==
    \/ FindConvexHull
    \/ FindFingers
    \/ ScanStep

SpecFingers == InitFingers /\ [][NextFingers]_vars

----------------------------------------------------------------------------
(* Properties *)

RawOf(c) == cvConvexityDefects(c)

\* C1: after find_convex_hull on a non-empty raw defect list, hand_center is
\* the truncating mean of the depth points of ALL raw defects.
C1_CenterIsMeanOfAll ==
    (pc = "find_fingers" /\ Len(RawOf(contour)) # 0) =>
        hand_center = Pt(SumX(RawOf(contour), Len(RawOf(contour)))
                            \div Len(RawOf(contour)),
                         SumY(RawOf(contour), Len(RawOf(contour)))
                            \div Len(RawOf(contour)))

\* C2: num_defects stays within 0..MAX_DEFECTS, so display indexes only the
\* NUM_DEFECTS slots of the defects buffer.
C2_NumDefectsWithinCap == num_defects \in 0..NUM_DEFECTS

\* C3: in a frame where find_contour finds no contour, no hull is computed
\* and the fingertip scan does not run.
C3_NoContourSkipsDetection ==
    ~found =>
        /\ pc # "scan"
        /\ pc \in {"find_fingers", "display", "wait_key"} => hull = HullNULL

\* C4: a frame with a contour and a hull but no convexity defect gets no
\* overlay.
C4_NoOverlayWithoutDefects ==
    (/\ pc = "wait_key"
     /\ found
     /\ hull # HullNULL
     /\ Len(RawOf(contour)) = 0) => ~overlay.drawn

ClaimedAccept(dist, d1, d2, mp) ==
    /\ dist < d1
    /\ d1 > d2
    /\ mp # Origin
    /\ mp.y < FrameHeight - 10

\* C5: at each contour index the scan appends exactly when dist_now <
\* dist_prev, dist_prev > dist_prev2, the candidate is not (0,0) and its y is
\* below frame_height - 10.
C5_AppendIffStrictPeak ==
    [][(pc = "scan" /\ i < Len(points)) =>
         ((num_fingers' = num_fingers + 1) <=>
            ClaimedAccept(SqDist(hand_center.x, hand_center.y, points[i + 1]),
                          dist1, dist2, max_point))]_vars

\* C6: num_fingers stays within 0..MAX_FINGERS, no store goes past
\* fingers[5], and no loop iteration runs once six points are collected.
C6_FingersWithinCap ==
    /\ num_fingers \in 0..(NUM_FINGERS + 1)
    /\ Len(fingers) = NUM_FINGERS + 1
    /\ ~overflow
    /\ pc = "scan" => num_fingers < NUM_FINGERS + 1

C6_Witness ==
    /\ pc = "display"
    /\ num_fingers = NUM_FINGERS + 1
    /\ Len(contour.points) > 2 * (NUM_FINGERS + 1)

ISqrt(d) == CHOOSE k \in 0..d : k * k <= d /\ (k + 1) * (k + 1) > d

RECURSIVE SumTruncDist(_, _, _)
SumTruncDist(raw, n, c) ==
    IF n = 0 THEN 0
    ELSE SumTruncDist(raw, n - 1, c) + ISqrt(SqDist(c.x, c.y, raw[n]))

\* C7: after find_convex_hull on a non-empty raw defect list, hand_radius is
\* the truncating mean, over all raw defects, of the truncated distance from
\* the stored hand_center to the depth point.
C7_RadiusIsMeanTruncDist ==
    (pc = "find_fingers" /\ Len(RawOf(contour)) # 0) =>
        hand_radius = SumTruncDist(RawOf(contour), Len(RawOf(contour)),
                                   hand_center)
                        \div Len(RawOf(contour))

C7_Witness ==
    /\ pc = "find_fingers"
    /\ RawOf(contour) = <<Pt(0, 0), Pt(10, 0), Pt(0, 10), Pt(10, 10)>>
    /\ hand_center = Pt(5, 5)
    /\ hand_radius = 7

\* C8: find_convex_hull on an empty or absent raw defect list leaves
\* hand_center, hand_radius, num_defects and the defects buffer as they were.
C8_EmptyDefectsNoOp ==
    [][(pc = "find_convex_hull" /\ Len(RawOf(contour)) = 0) =>
         UNCHANGED hand]_vars

C8_Witness ==
    /\ pc = "find_fingers"
    /\ found
    /\ contour = ConvexRing
    /\ hull # HullNULL
    /\ hand_center # Origin
    /\ hand_radius > 0
    /\ num_defects > 0

\* C9: the loop of find_fingers never runs over a contour of fewer than 3
\* points.
C9_ScanNeedsThreePoints == pc = "scan" => Len(points) >= 3

\* C10 as claimed: a point appended while processing index i >= 2 is the
\* contour point at index i - 2.
C10_AppendsTwoBehind ==
    [][(pc = "scan" /\ num_fingers' = num_fingers + 1 /\ i >= 2) =>
         fingers'[num_fingers'] = points[i - 1]]_vars

\* C10 as amended: a point appended while processing index i is the contour
\* point at index i - 1, the one whose squared distance dist_prev is the
\* strict local peak.
C10_AppendsThePeak ==
    [][(pc = "scan" /\ num_fingers' = num_fingers + 1) =>
         /\ i >= 1
         /\ fingers'[num_fingers'] = points[i]
         /\ dist1 = SqDist(hand_center.x, hand_center.y, points[i])
         /\ dist1 > dist2
         /\ dist1 > SqDist(hand_center.x, hand_center.y, points[i + 1])]_vars

C10_Witness ==
    /\ pc = "scan"
    /\ i >= 3
    /\ num_fingers >= 1
    /\ fingers[num_fingers] = points[i - 1]
    /\ fingers[num_fingers] # points[i - 2]
    /\ max_point = points[i]
    /\ dist2 = SqDist(hand_center.x, hand_center.y, fingers[num_fingers])
    /\ dist2 > dist1

====
